---- MODULE Spec2Model ----
(***************************************************************************)
(* aws-nuke: the command tree of cmd/root.go (root command, "baseline"     *)
(* subcommand, buildNuke) together with the run it starts.                  *)
(*                                                                         *)
(* cmd/root.go is modelled from its code.  Nuke.Run, Nuke.BuildBlueprint,  *)
(* NukeParameters.Validate and the awsutil / config packages are called by *)
(* root.go but defined elsewhere in the repository; they are modelled from *)
(* the specification (sections 4.3, 4.4, 6, 7) and from the flag help      *)
(* texts of root.go.                                                       *)
(***************************************************************************)
EXTENDS Naturals, Sequences, FiniteSets, TLC

VARIABLES
    pc,               \* position of the process: constructed, parsed, Run, gate, sweep, BuildBlueprint, exit
    args,             \* the command line handed to cobra
    cmd,              \* the command cobra dispatches to
    params,           \* NukeParameters bound to the persistent flags
    creds,            \* awsutil.Credentials bound to the persistent flags
    defaultRegion,    \* the local defaultRegion of NewRootCommand (bound to --default-region)
    blueprintRegion,  \* the defaultRegion parameter of NewAccountBlueprintCommand
    DefaultRegionID,  \* the process-wide awsutil.DefaultRegionID
    regionArg,        \* the defaultRegion argument buildNuke was called with
    log,              \* calls made to collaborators during bootstrap, with what they returned
    nuke,             \* the *Nuke buildNuke returned: "nil" or "built"
    result,           \* the error RunE returned ("nil": none, "none": RunE has not returned)
    state,            \* lifecycle state of every resource / DeletionRecord
    attempts,         \* Remove calls issued per resource (DeletionRecord attempt count)
    visited,          \* records the current sweep has visited
    progress,         \* the current sweep moved a record to a terminal state
    sweeps,           \* completed sweeps
    noProgress,       \* the stuck detector's counter of consecutive sweeps without progress
    gateElapsed,      \* seconds of the confirmation delay that have elapsed
    gate,             \* the confirmation gate: pending, acked, elapsed or aborted
    aborted,          \* the stuck detector aborted the run
    allErr,           \* every Remove call so far returned an error
    allOk             \* every Remove call so far succeeded and its StillPresent returned false

vars == <<pc, args, cmd, params, creds, defaultRegion, blueprintRegion, DefaultRegionID,
          regionArg, log, nuke, result, state, attempts, visited, progress, sweeps,
          noProgress, gateElapsed, gate, aborted, allErr, allOk>>

(***************************************************************************)
(* Bounds of the model.                                                    *)
(***************************************************************************)
NumResources == 2
MaxSweeps == 3
MaxRetries == 2
ShortSleep == 2

Res == 1..NumResources

(***************************************************************************)
(* Flag defaults of NewRootCommand.                                        *)
(***************************************************************************)
ForceSleepDefault == 15
MaxWaitRetriesDefault == 0

FlagNames == {"profile", "access-key-id", "secret-access-key", "default-region",
              "no-dry-run", "force", "force-sleep", "max-wait-retries"}

\* Command lines: the command, the flags given, the values of the integer flags,
\* and whether NukeParameters.Validate accepts the parameter set.
Args ==
    { a \in [cmd : {"root", "baseline"},
             given : SUBSET FlagNames,
             valid : BOOLEAN,
             forceSleep : {0, ShortSleep},
             maxWaitRetries : 0..MaxRetries] :
        /\ ("force-sleep" \in a.given) <=> (a.forceSleep = ShortSleep)
        /\ ("max-wait-retries" \notin a.given) => (a.maxWaitRetries = 0) }

FlagNoDryRunOn(a) == TRUE
FlagNoDryRun(a) == "no-dry-run" \in a.given

FlagForce(a) == "force" \in a.given

FlagForceSleepZero(a) == IF "force-sleep" \in a.given THEN a.forceSleep ELSE 0
FlagForceSleep(a) == IF "force-sleep" \in a.given THEN a.forceSleep ELSE ForceSleepDefault

FlagMaxWaitRetriesDropped(a) == MaxWaitRetriesDefault
FlagMaxWaitRetriesOne(a) == IF "max-wait-retries" \in a.given THEN a.maxWaitRetries ELSE 1
FlagMaxWaitRetries(a) ==
    IF "max-wait-retries" \in a.given THEN a.maxWaitRetries ELSE MaxWaitRetriesDefault

FlagDefaultRegion(a) == IF "default-region" \in a.given THEN "r1" ELSE ""

FlagCreds(a) ==
    [Profile |-> IF "profile" \in a.given THEN "p" ELSE "",
     AccessKeyID |-> IF "access-key-id" \in a.given THEN "k" ELSE "",
     SecretAccessKey |-> IF "secret-access-key" \in a.given THEN "s" ELSE ""]

FlagParams(a) ==
    [valid |-> a.valid,
     NoDryRun |-> FlagNoDryRun(a),
     Force |-> FlagForce(a),
     ForceSleep |-> FlagForceSleep(a),
     MaxWaitRetries |-> FlagMaxWaitRetries(a)]

\* The zero values the flag variables hold before cobra parses the command line.
ZeroParams ==
    [valid |-> FALSE, NoDryRun |-> FALSE, Force |-> FALSE, ForceSleep |-> 0,
     MaxWaitRetries |-> 0]
ZeroCreds == [Profile |-> "", AccessKeyID |-> "", SecretAccessKey |-> ""]
ZeroArgs ==
    [cmd |-> "root", given |-> {}, valid |-> FALSE, forceSleep |-> 0, maxWaitRetries |-> 0]

(***************************************************************************)
(* Collaborators of buildNuke that live outside cmd/root.go.               *)
(***************************************************************************)
Validate(p) == IF p.valid THEN "nil" ELSE "params"

HasProfile(c) == c.Profile /= ""
HasKeys(c) == c.AccessKeyID /= "" \/ c.SecretAccessKey /= ""
CredsValidate(c) ==
    IF HasProfile(c) /\ HasKeys(c) THEN "creds"
    ELSE IF (c.AccessKeyID = "") /= (c.SecretAccessKey = "") THEN "creds"
    ELSE "nil"

\* What the environment answers during one bootstrap: the two environment
\* variables, whether the config file loads, the regions its custom endpoints
\* name, and whether the account can be set up.
Envs ==
    [AWS_ACCESS_KEY_ID : {"", "ek"},
     AWS_SECRET_ACCESS_KEY : {"", "es"},
     configLoads : BOOLEAN,
     endpoints : {{}, {"r1"}},
     accountOk : BOOLEAN]

Call(name, ok) == [call |-> name, ok |-> ok]

\* The value awsutil.DefaultRegionID holds when the process starts.
InitialRegionID == "us-east-1"

(***************************************************************************)
(* buildNuke(params, creds, defaultRegion): the bootstrap steps in order.  *)
(* The result carries the returned Nuke pointer and error, and the side     *)
(* effects on the credentials and on awsutil.DefaultRegionID.              *)
(***************************************************************************)
buildNukeNoRegionCheck(p, c, region, env) ==
    LET fallback == ~HasKeys(c) /\ ~HasProfile(c) /\ region /= ""
        c1 == IF fallback
              THEN [c EXCEPT !.AccessKeyID = env.AWS_ACCESS_KEY_ID,
                             !.SecretAccessKey = env.AWS_SECRET_ACCESS_KEY]
              ELSE c
        l0 == IF fallback THEN <<Call("os.Getenv", TRUE)>> ELSE <<>>
        l1 == Append(l0, Call("creds.Validate", CredsValidate(c1) = "nil"))
        l2 == Append(l1, Call("config.Load", env.configLoads))
        l3 == IF region /= ""
              THEN Append(l2, Call("GetRegion", region \in env.endpoints))
              ELSE l2
        id3 == IF region /= "" THEN region ELSE DefaultRegionID
        l4 == Append(l3, Call("NewAccount", env.accountOk))
    IN  IF CredsValidate(c1) /= "nil"
        THEN [nuke |-> "nil", err |-> "creds", creds |-> c1, log |-> l1,
              DefaultRegionID |-> DefaultRegionID, region |-> region]
        ELSE IF ~env.configLoads
        THEN [nuke |-> "nil", err |-> "config", creds |-> c1, log |-> l2,
              DefaultRegionID |-> DefaultRegionID, region |-> region]
        ELSE IF ~env.accountOk
        THEN [nuke |-> "nil", err |-> "account", creds |-> c1, log |-> l4,
              DefaultRegionID |-> id3, region |-> region]
        ELSE [nuke |-> "built", err |-> "nil", creds |-> c1, log |-> l4,
              DefaultRegionID |-> id3, region |-> region]

buildNuke(p, c, region, env) ==
    LET fallback == ~HasKeys(c) /\ ~HasProfile(c) /\ region /= ""
        c1 == IF fallback
              THEN [c EXCEPT !.AccessKeyID = env.AWS_ACCESS_KEY_ID,
                             !.SecretAccessKey = env.AWS_SECRET_ACCESS_KEY]
              ELSE c
        l0 == IF fallback THEN <<Call("os.Getenv", TRUE)>> ELSE <<>>
        l1 == Append(l0, Call("creds.Validate", CredsValidate(c1) = "nil"))
        l2 == Append(l1, Call("config.Load", env.configLoads))
        l3 == IF region /= ""
              THEN Append(l2, Call("GetRegion", region \in env.endpoints))
              ELSE l2
        id3 == IF region /= "" THEN region ELSE DefaultRegionID
        l4 == Append(l3, Call("NewAccount", env.accountOk))
    IN  IF CredsValidate(c1) /= "nil"
        THEN [nuke |-> "nil", err |-> "creds", creds |-> c1, log |-> l1,
              DefaultRegionID |-> DefaultRegionID, region |-> region]
        ELSE IF ~env.configLoads
        THEN [nuke |-> "nil", err |-> "config", creds |-> c1, log |-> l2,
              DefaultRegionID |-> DefaultRegionID, region |-> region]
        ELSE IF region /= "" /\ region \notin env.endpoints
        THEN [nuke |-> "nil", err |-> "region", creds |-> c1, log |-> l3,
              DefaultRegionID |-> id3, region |-> region]
        ELSE IF ~env.accountOk
        THEN [nuke |-> "nil", err |-> "account", creds |-> c1, log |-> l4,
              DefaultRegionID |-> id3, region |-> region]
        ELSE [nuke |-> "built", err |-> "nil", creds |-> c1, log |-> l4,
              DefaultRegionID |-> id3, region |-> region]

(***************************************************************************)
(* State after NewRootCommand() has built the command tree: the flag       *)
(* variables hold their zero values, and the baseline subcommand has been  *)
(* handed the value defaultRegion had at that moment.                      *)
(***************************************************************************)
Init ==
    /\ pc = "constructed"
    /\ args = ZeroArgs
    /\ cmd = "root"
    /\ params = ZeroParams
    /\ creds = ZeroCreds
    /\ defaultRegion = ""
    /\ blueprintRegion = ""
    /\ DefaultRegionID = InitialRegionID
    /\ regionArg = ""
    /\ log = <<>>
    /\ nuke = "nil"
    /\ result = "none"
    /\ state = [r \in Res |-> "New"]
    /\ attempts = [r \in Res |-> 0]
    /\ visited = {}
    /\ progress = FALSE
    /\ sweeps = 0
    /\ noProgress = 0
    /\ gateElapsed = 0
    /\ gate = "pending"
    /\ aborted = FALSE
    /\ allErr = TRUE
    /\ allOk = TRUE

schedVars == <<state, attempts, visited, progress, sweeps, noProgress, gateElapsed,
               gate, aborted, allErr, allOk>>

\* cobra parses the command line into the bound flag variables and dispatches.
Execute ==
    /\ pc = "constructed"
    /\ \E a \in Args :
         /\ args' = a
         /\ cmd' = a.cmd
         /\ params' = FlagParams(a)
         /\ creds' = FlagCreds(a)
         /\ defaultRegion' = FlagDefaultRegion(a)
    /\ pc' = "parsed"
    /\ UNCHANGED <<blueprintRegion, DefaultRegionID, regionArg, log, nuke, result>>
    /\ UNCHANGED schedVars

(***************************************************************************)
(* RunE of the root command up to the call of nuke.Run: params.Validate,   *)
(* then buildNuke; the first error is returned.                            *)
(***************************************************************************)
RootBootstrapIgnoreValidate(p, c, region, env) ==
    LET b == buildNuke(p, c, region, env)
    IN  [b EXCEPT !.log = <<Call("params.Validate", Validate(p) = "nil")>> \o b.log]

RootBootstrap(p, c, region, env) ==
    LET b == buildNuke(p, c, region, env)
    IN  IF Validate(p) /= "nil"
        THEN [nuke |-> "nil", err |-> Validate(p), creds |-> c,
              log |-> <<Call("params.Validate", FALSE)>>,
              DefaultRegionID |-> DefaultRegionID, region |-> regionArg]
        ELSE [b EXCEPT !.log = <<Call("params.Validate", TRUE)>> \o b.log]

\* The method of *Nuke each RunE ends with.
RootCall == "Run"

BaselineCallRun == "Run"
BaselineCall == "BuildBlueprint"

\* The defaultRegion the baseline's RunE closes over: the parameter of
\* NewAccountBlueprintCommand, not the flag variable of NewRootCommand.
BaselineRegionLive == defaultRegion
BaselineRegion == blueprintRegion

RootRunE ==
    /\ pc = "parsed"
    /\ cmd = "root"
    /\ \E env \in Envs :
         LET b == RootBootstrap(params, creds, defaultRegion, env)
         IN  /\ creds' = b.creds
             /\ DefaultRegionID' = b.DefaultRegionID
             /\ log' = b.log
             /\ nuke' = b.nuke
             /\ regionArg' = b.region
             /\ IF b.err /= "nil"
                THEN pc' = "exit" /\ result' = b.err
                ELSE pc' = RootCall /\ result' = result
    /\ UNCHANGED <<args, cmd, params, defaultRegion, blueprintRegion>>
    /\ UNCHANGED schedVars

BaselineRunE ==
    /\ pc = "parsed"
    /\ cmd = "baseline"
    /\ \E env \in Envs :
         LET b == buildNuke(params, creds, BaselineRegion, env)
         IN  /\ creds' = b.creds
             /\ DefaultRegionID' = b.DefaultRegionID
             /\ log' = b.log
             /\ nuke' = b.nuke
             /\ regionArg' = b.region
             /\ IF b.err /= "nil"
                THEN pc' = "exit" /\ result' = b.err
                ELSE pc' = BaselineCall /\ result' = result
    /\ UNCHANGED <<args, cmd, params, defaultRegion, blueprintRegion>>
    /\ UNCHANGED schedVars

(***************************************************************************)
(* The run: scan and classification, dry-run report, confirmation gate,    *)
(* sweeps, stuck detector, exit status.                                    *)
(***************************************************************************)
\* Section 4.3 marks Filtered, Removed and Skipped terminal.  Failed is not:
\* removal errors are retried on the next sweep, and the stuck detector turns
\* every record that is still not terminal into Skipped.
Terminal == {"Filtered", "Removed", "Skipped"}
NonTerminal == {"New", "Pending", "Removing", "Waiting", "Failed"}

\* The scan classifies every discovered resource: filtered, or a candidate.
Classify(F) == [r \in Res |-> IF r \in F THEN "Filtered" ELSE "Pending"]

\* The error the run ends with (section 6): none only if every resource is
\* Removed or Filtered and the stuck detector did not abort.  Section 6 makes no
\* exception for a dry run or for a run aborted at the gate.
RunResult(st, stuck) ==
    IF stuck THEN "stuck"
    ELSE IF \E r \in Res : st[r] \notin {"Removed", "Filtered"} THEN "unfinished"
    ELSE "nil"

bootVars == <<args, cmd, params, creds, defaultRegion, blueprintRegion, DefaultRegionID,
              regionArg, log, nuke>>

BuildBlueprint ==
    /\ pc = "BuildBlueprint"
    /\ \E F \in SUBSET Res : state' = Classify(F)
    /\ pc' = "exit"
    /\ result' = "nil"
    /\ UNCHANGED bootVars
    /\ UNCHANGED <<attempts, visited, progress, sweeps, noProgress, gateElapsed, gate,
                   aborted, allErr, allOk>>

Scan ==
    /\ pc = "Run"
    /\ \E F \in SUBSET Res :
         /\ state' = Classify(F)
         /\ IF params.NoDryRun
            THEN pc' = "gate" /\ result' = result
            ELSE pc' = "exit" /\ result' = RunResult(Classify(F), FALSE)
    /\ UNCHANGED bootVars
    /\ UNCHANGED <<attempts, visited, progress, sweeps, noProgress, gateElapsed, gate,
                   aborted, allErr, allOk>>

gateFrame == <<state, attempts, visited, progress, sweeps, noProgress, aborted, allErr,
               allOk>>

\* The confirmation gate of a live run: an acknowledgment without --force, the
\* delay of ForceSleep seconds with it; the operator may abort while it is open.
\* The first sweep begins when the gate has completed.
GateAck ==
    /\ pc = "gate"
    /\ ~params.Force
    /\ gate' = "acked"
    /\ pc' = "sweep"
    /\ UNCHANGED <<result, gateElapsed>>
    /\ UNCHANGED bootVars
    /\ UNCHANGED gateFrame

GateTick ==
    /\ pc = "gate"
    /\ params.Force
    /\ gateElapsed < params.ForceSleep
    /\ gateElapsed' = gateElapsed + 1
    /\ UNCHANGED <<pc, result, gate>>
    /\ UNCHANGED bootVars
    /\ UNCHANGED gateFrame

GateElapsed ==
    /\ pc = "gate"
    /\ params.Force
    /\ gateElapsed >= params.ForceSleep
    /\ gate' = "elapsed"
    /\ pc' = "sweep"
    /\ UNCHANGED <<result, gateElapsed>>
    /\ UNCHANGED bootVars
    /\ UNCHANGED gateFrame

GateAbort ==
    /\ pc = "gate"
    /\ gate' = "aborted"
    /\ pc' = "exit"
    /\ result' = RunResult(state, FALSE)
    /\ UNCHANGED gateElapsed
    /\ UNCHANGED bootVars
    /\ UNCHANGED gateFrame

\* What one removal attempt observes: the answer of Remove and, when the
\* removal was accepted, the answer of the liveness re-check.
Observations ==
    {<<"error", "unchecked">>} \cup ({"success", "pending"} \X {"gone", "present", "error"})

\* Removing -> Removed | Waiting | Failed.  A liveness error counts as present.
AfterRemoveNeverConfirms(o) == IF o[1] = "error" THEN "Failed" ELSE "Waiting"
AfterRemove(o) ==
    IF o[1] = "error" THEN "Failed"
    ELSE IF o[2] = "gone" THEN "Removed"
    ELSE "Waiting"

\* One visit of a sweep: a record that is not terminal gets one Remove call.
Visit(r) ==
    /\ pc = "sweep"
    /\ sweeps < MaxSweeps
    /\ r \notin visited
    /\ state[r] \in NonTerminal
    /\ \E o \in Observations :
         /\ state' = [state EXCEPT ![r] = AfterRemove(o)]
         /\ progress' = (progress \/ AfterRemove(o) \in Terminal)
         /\ allErr' = (allErr /\ o[1] = "error")
         /\ allOk' = (allOk /\ o = <<"success", "gone">>)
    /\ attempts' = [attempts EXCEPT ![r] = @ + 1]
    /\ visited' = visited \cup {r}
    /\ UNCHANGED <<pc, result, sweeps, noProgress, gateElapsed, gate, aborted>>
    /\ UNCHANGED bootVars

\* The stuck detector: the counter after a sweep, and whether it aborts.
NoProgressAfter(count, moved) == IF moved THEN 0 ELSE count + 1
Stuck(max, count) == max /= 0 /\ count >= max

\* The barrier at the end of a sweep: every record still not terminal has been
\* visited.  The run stops when all records are terminal, aborts when the stuck
\* detector fires (the rest become Skipped), and sweeps again otherwise.
SweepEnd ==
    /\ pc = "sweep"
    /\ sweeps < MaxSweeps
    /\ \A r \in Res : state[r] \in NonTerminal => r \in visited
    /\ sweeps' = sweeps + 1
    /\ LET count == NoProgressAfter(noProgress, progress)
           skipped == [r \in Res |-> IF state[r] \in NonTerminal THEN "Skipped"
                                     ELSE state[r]]
       IN  /\ noProgress' = count
           /\ IF \A r \in Res : state[r] \in Terminal
              THEN /\ pc' = "exit"
                   /\ result' = RunResult(state, FALSE)
                   /\ UNCHANGED <<state, aborted>>
              ELSE IF Stuck(params.MaxWaitRetries, count)
              THEN /\ pc' = "exit"
                   /\ aborted' = TRUE
                   /\ state' = skipped
                   /\ result' = RunResult(skipped, TRUE)
              ELSE /\ pc' = "sweep"
                   /\ UNCHANGED <<state, aborted, result>>
    /\ visited' = {}
    /\ progress' = FALSE
    /\ UNCHANGED <<attempts, gateElapsed, gate, allErr, allOk>>
    /\ UNCHANGED bootVars

Next ==
    \/ Execute
    \/ RootRunE
    \/ BaselineRunE
    \/ BuildBlueprint
    \/ Scan
    \/ GateAck
    \/ GateTick
    \/ GateElapsed
    \/ GateAbort
    \/ \E r \in Res : Visit(r)
    \/ SweepEnd

Spec == Init /\ [][Next]_vars

(***************************************************************************)
(* Properties.                                                             *)
(***************************************************************************)
Dispatched == pc \notin {"constructed", "parsed"}
NoRemoveIssued == \A r \in Res : attempts[r] = 0 /\ state[r] \in {"New", "Filtered", "Pending"}
BootstrapOk == \A i \in DOMAIN log : log[i].ok

\* The bootstrap calls in the order made, the reads of the environment left out.
Steps == [i \in DOMAIN SelectSeq(log, LAMBDA e : e.call /= "os.Getenv") |->
            SelectSeq(log, LAMBDA e : e.call /= "os.Getenv")[i].call]
StepOrder ==
    <<"params.Validate", "creds.Validate", "config.Load">>
        \o (IF defaultRegion /= "" THEN <<"GetRegion">> ELSE <<>>)
        \o <<"NewAccount">>
StepError(call) ==
    CASE call = "params.Validate" -> "params"
      [] call = "creds.Validate" -> "creds"
      [] call = "config.Load" -> "config"
      [] call = "GetRegion" -> "region"
      [] call = "NewAccount" -> "account"

\* C1: a run in which --no-dry-run is not given never opens the confirmation
\* gate, never sweeps and never issues a Remove call; once the scan is done it
\* has ended with every resource classified as filtered or candidate.
C1_DryRunNeverRemoves ==
    (Dispatched /\ "no-dry-run" \notin args.given) =>
        /\ NoRemoveIssued
        /\ pc \notin {"gate", "sweep"}
        /\ sweeps = 0
        /\ (state /= [r \in Res |-> "New"] =>
              pc = "exit" /\ \A r \in Res : state[r] \in {"Filtered", "Pending"})

C1_Witness ==
    /\ cmd = "root"
    /\ "no-dry-run" \notin args.given
    /\ "force" \in args.given
    /\ pc = "exit"
    /\ \E r \in Res : state[r] = "Pending"

\* C2: a Remove call is issued, and a sweep is entered, only in a live run whose
\* confirmation gate has completed: without --force the operator acknowledged,
\* with --force the whole delay elapsed (the value of --force-sleep, 15 seconds
\* when the flag is not given); a run aborted at the gate issues no Remove call.
C2_GateBeforeRemove ==
    /\ (pc = "sweep" \/ sweeps > 0 \/ \E r \in Res : attempts[r] > 0) =>
          /\ "no-dry-run" \in args.given
          /\ IF "force" \in args.given
             THEN /\ gate = "elapsed"
                  /\ gateElapsed >= (IF "force-sleep" \in args.given
                                     THEN args.forceSleep ELSE ForceSleepDefault)
             ELSE gate = "acked"
    /\ gate = "aborted" => pc = "exit" /\ NoRemoveIssued /\ sweeps = 0

C2_Witness ==
    /\ "force" \in args.given
    /\ "force-sleep" \notin args.given
    /\ gateElapsed = ForceSleepDefault
    /\ \E r \in Res : attempts[r] > 0

\* C3: on the root command the bootstrap calls are made in the order
\* params.Validate, creds.Validate, config.Load, GetRegion (only for a non-empty
\* --default-region), NewAccount; no call follows a failed one; the failed call's
\* error is what RunE returns, with no Nuke built and nothing scanned; and the
\* run starts only after all of them succeeded.
C3_BootstrapOrder ==
    (cmd = "root" /\ Dispatched) =>
        /\ Len(Steps) >= 1
        /\ Len(Steps) <= Len(StepOrder)
        /\ \A i \in DOMAIN Steps : Steps[i] = StepOrder[i]
        /\ \A i \in DOMAIN log : i < Len(log) => log[i].ok
        /\ ~log[Len(log)].ok =>
              /\ pc = "exit"
              /\ result = StepError(log[Len(log)].call)
              /\ nuke = "nil"
              /\ NoRemoveIssued
              /\ state = [r \in Res |-> "New"]
        /\ log[Len(log)].ok =>
              /\ Steps = StepOrder
              /\ nuke = "built"
              /\ result \notin {"params", "creds", "config", "region", "account"}

C3_Witness ==
    /\ cmd = "root"
    /\ pc = "Run"
    /\ defaultRegion = "r1"
    /\ Len(Steps) = 5
    /\ BootstrapOk

\* C4: in a live run with --max-wait-retries N > 0 in which every Remove call
\* returned an error, the scheduler is still sweeping only while fewer than N
\* sweeps are complete, every completed sweep counted as no progress, and the
\* run has ended exactly when N sweeps are complete: aborted by the stuck
\* detector, every candidate Skipped, a non-nil error returned.
C4_StuckAfterExactlyN ==
    ( /\ cmd = "root"
      /\ "max-wait-retries" \in args.given
      /\ args.maxWaitRetries > 0
      /\ allErr
      /\ \E r \in Res : attempts[r] > 0 ) =>
        /\ noProgress = sweeps
        /\ sweeps <= args.maxWaitRetries
        /\ pc \in {"sweep", "exit"}
        /\ pc = "sweep" => sweeps < args.maxWaitRetries /\ ~aborted
        /\ pc = "exit" =>
              /\ sweeps = args.maxWaitRetries
              /\ aborted
              /\ \A r \in Res : state[r] \in {"Skipped", "Filtered"}
              /\ \A r \in Res : attempts[r] > 0 => state[r] = "Skipped"
              /\ result \notin {"nil", "none"}

C4_Witness ==
    /\ cmd = "root"
    /\ args.maxWaitRetries = MaxRetries
    /\ allErr
    /\ pc = "exit"
    /\ aborted
    /\ sweeps = MaxRetries
    /\ \A r \in Res : state[r] = "Skipped" /\ attempts[r] = MaxRetries

\* C5: when --max-wait-retries is not given, or given as 0, the stuck detector
\* never aborts the run and no record becomes Skipped, and a run that has swept
\* ends only when every record is terminal.
C5_ZeroDisablesStuckDetector ==
    ("max-wait-retries" \notin args.given \/ args.maxWaitRetries = 0) =>
        /\ ~aborted
        /\ result /= "stuck"
        /\ \A r \in Res : state[r] /= "Skipped"
        /\ (pc = "exit" /\ sweeps > 0) => \A r \in Res : state[r] \in Terminal

C5_Witness ==
    /\ "max-wait-retries" \notin args.given
    /\ pc = "sweep"
    /\ sweeps = MaxSweeps
    /\ noProgress = MaxSweeps
    /\ \A r \in Res : state[r] \in {"Waiting", "Failed"}

C7_ConvergesInOneSweep ==
    (cmd = "root" /\ gate \in {"acked", "elapsed"} /\ allOk) =>
        /\ pc \in {"sweep", "exit"}
        /\ pc = "sweep" => sweeps = 0
        /\ pc = "exit" =>
              /\ sweeps = 1
              /\ \A r \in Res : \/ state[r] = "Removed" /\ attempts[r] = 1
                                \/ state[r] = "Filtered" /\ attempts[r] = 0
              /\ result = "nil"

C7_Witness ==
    /\ cmd = "root"
    /\ allOk
    /\ pc = "exit"
    /\ sweeps = 1
    /\ \A r \in Res : state[r] = "Removed" /\ attempts[r] = 1

\* C8: the baseline subcommand, whatever flags it is given, never enters the
\* run, the gate or a sweep and never issues a Remove call.
C8_BaselineReadOnly ==
    cmd = "baseline" =>
        /\ pc \notin {"Run", "gate", "sweep"}
        /\ NoRemoveIssued
        /\ sweeps = 0
        /\ gate = "pending"

C8_Witness ==
    /\ cmd = "baseline"
    /\ {"no-dry-run", "force"} \subseteq args.given
    /\ pc = "exit"
    /\ result = "nil"
    /\ \E r \in Res : state[r] = "Pending"

\* C9: when params.Validate rejects the parsed flags, the baseline subcommand
\* returns an error and no resource is scanned.
C9_BaselineValidatesParams ==
    (cmd = "baseline" /\ Dispatched /\ Validate(params) /= "nil") =>
        /\ pc = "exit"
        /\ result \notin {"nil", "none"}
        /\ state = [r \in Res |-> "New"]

\* C10: the baseline's buildNuke always gets the empty region: it leaves
\* awsutil.DefaultRegionID alone, makes no GetRegion check and reads no
\* credentials from the environment; the root command's buildNuke gets the
\* value of --default-region as parsed.
C10_BaselineIgnoresDefaultRegion ==
    /\ (cmd = "baseline" /\ Dispatched) =>
          /\ regionArg = ""
          /\ DefaultRegionID = InitialRegionID
          /\ creds = FlagCreds(args)
          /\ \A i \in DOMAIN log : log[i].call \notin {"GetRegion", "os.Getenv"}
    /\ (cmd = "root" /\ Dispatched /\ Len(log) > 1) =>
          /\ regionArg = FlagDefaultRegion(args)
          /\ regionArg = defaultRegion

C10_Witness ==
    /\ cmd = "baseline"
    /\ "default-region" \in args.given
    /\ creds = ZeroCreds
    /\ pc = "exit"
    /\ nuke = "built"
====
